---- MODULE Spec2Model ----
(***************************************************************************)
(* A model of src/src/Simulation.tsx: the double-buffered particle state   *)
(* textures (createDoubleBufferTexture), the update kernel (the fragment   *)
(* shader of createParticles), one animation tick (tick / update), the     *)
(* pointer handlers and the destroy function of createSimulation.          *)
(*                                                                         *)
(* Numbers.  The program computes in 32-bit floats.  The model computes in *)
(* fixed point: a float value v is the integer round(v * ONE).  Property   *)
(* texels (gravity, radius) are kept in units of 1 / PROP_ONE so that the  *)
(* seeded gravity 0.00001 is representable.  The GLSL / Math builtins      *)
(* (sqrt, pow, cos, sin, length) are computed in that arithmetic.          *)
(***************************************************************************)
EXTENDS Integers, Naturals, Sequences, FiniteSets, TLC

(***************************************************************************)
(* Bounds of the model.                                                    *)
(***************************************************************************)
MaxParticles == 5
MaxTicks == 2
MaxEvents == 2
MaxGridCount == 70

(***************************************************************************)
(* Fixed-point arithmetic standing for the float arithmetic.               *)
(***************************************************************************)
ONE == 10000
PROP_ONE == 100000
PI == 31416

Abs(a) == IF a < 0 THEN -a ELSE a

Sgn(a) == IF a < 0 THEN -1 ELSE 1

\* the decimal literal n/d
Lit(n, d) == (n * ONE) \div d

\* a * b, rounded to the nearest unit, sign-symmetric; the product is formed
\* from the integer and fractional parts so that no intermediate exceeds the
\* result's own range
FMul(a, b) ==
  LET qa == Abs(a) \div ONE
      ra == Abs(a) % ONE
      qb == Abs(b) \div ONE
      rb == Abs(b) % ONE
  IN  (Sgn(a) * Sgn(b)) *
        (qa * qb * ONE + qa * rb + ra * qb + (ra * rb + ONE \div 2) \div ONE)

\* a / b, rounded to the nearest unit, sign-symmetric (b # 0)
FDiv(a, b) ==
  (Sgn(a) * Sgn(b)) * ((Abs(a) * ONE + Abs(b) \div 2) \div Abs(b))

\* a fixed-point value times a property value (units of 1 / PROP_ONE)
PMul(a, g) ==
  (Sgn(a) * Sgn(g)) * ((Abs(a) * Abs(g) + PROP_ONE \div 2) \div PROP_ONE)

RECURSIVE ISqrtBS(_, _, _)
\* the largest r in lo..hi with r * r <= n
ISqrtBS(n, lo, hi) ==
  IF lo >= hi THEN lo
  ELSE LET mid == (lo + hi + 1) \div 2
       IN  IF mid * mid <= n THEN ISqrtBS(n, mid, hi)
           ELSE ISqrtBS(n, lo, mid - 1)

\* sqrt(v) for v >= 0
sqrt(v) == ISqrtBS(v * ONE, 0, 46340)

RECURSIVE PowN(_, _)
\* x to the integer power n >= 0, by repeated squaring
PowN(x, n) ==
  IF n = 0 THEN ONE
  ELSE IF n % 2 = 0
       THEN LET h == PowN(x, n \div 2) IN FMul(h, h)
       ELSE FMul(PowN(x, n - 1), x)

RECURSIVE Root5BS(_, _, _)
\* the largest r in lo..hi whose fifth power is at most x
Root5BS(x, lo, hi) ==
  IF lo >= hi THEN lo
  ELSE LET mid == (lo + hi + 1) \div 2
       IN  IF PowN(mid, 5) <= x THEN Root5BS(x, mid, hi)
           ELSE Root5BS(x, lo, mid - 1)

\* pow(x, y) of GLSL for x >= 0: the exponents the kernel uses are 0.2 and
\* whole numbers
pow(x, y) ==
  IF y = Lit(2, 10) THEN Root5BS(x, 0, ONE) ELSE PowN(x, y \div ONE)

\* cos on [0, PI/2] by its Taylor polynomial of degree 8 (Horner form)
CosQ(x) ==
  LET x2 == FMul(x, x)
      t4 == ONE - x2 \div 56
      t3 == ONE - FMul(x2 \div 30, t4)
      t2 == ONE - FMul(x2 \div 12, t3)
  IN  ONE - FMul(x2 \div 2, t2)

\* cos(x) for -2 PI <= x <= 2 PI
cos(x) ==
  LET a == Abs(x)
      b == IF a > PI THEN 2 * PI - a ELSE a
  IN  IF 2 * b > PI THEN -CosQ(PI - b) ELSE CosQ(b)

\* sin(x) for 0 <= x <= 2 PI
sin(x) == cos(x - PI \div 2)

length2(v) == sqrt(FMul(v[1], v[1]) + FMul(v[2], v[2]))

length3(v) == sqrt(FMul(v[1], v[1]) + FMul(v[2], v[2]) + FMul(v[3], v[3]))

(***************************************************************************)
(* The state.                                                              *)
(***************************************************************************)
VARIABLES
  PARTICLE_COUNT,  \* the module constant of line 160 (20000 in the source)
  particles,       \* the object createParticles returns: count, textureSize
                   \* and the three published texture handles
  dbuf,            \* per double buffer, the closure variables read and write
  texData,         \* texture handle -> texel <<x, y>> -> vec4
  allocated,       \* the texture handles that exist in the GL context
  texUnits,        \* GL state: texture unit -> bound texture (0: none)
  fbAttach,        \* GL state: colour attachment of fb -> texture (0: none)
  uniformMouse,    \* GL state: the uniform vec3 mouse of the update program
  drawn,           \* the texels the last kernel dispatch wrote
  frame,           \* what the last render pass fetched per particle quad
  mx, my, pressed, \* the closure variables of createSimulation
  listeners,       \* the event types with a handler registered on window
  destroyed,
  rafPending,      \* a requestAnimationFrame(tick) callback is outstanding
  pc,              \* position inside tick() / update(), or "idle"
  updateArgs,      \* the arguments of the running update(mx, my, pressed)
  buttons,         \* environment: the pointer buttons currently held
  ticks,           \* number of update() calls begun
  events           \* number of pointer events delivered

vars == <<PARTICLE_COUNT, particles, dbuf, texData, allocated, texUnits,
          fbAttach, uniformMouse, drawn, frame, mx, my, pressed, listeners,
          destroyed, rafPending, pc, updateArgs, buttons, ticks, events>>

Buffers == <<"transform", "color", "property">>

BufferNames == {"transform", "color", "property"}

\* the texels of a size x size texture, <<x, y>> = <<column, row>>
Cells(size) == (0 .. size - 1) \X (0 .. size - 1)

\* the particle indices a size x size texture has room for
Indices(size) == 0 .. size * size - 1

Zero4 == <<0, 0, 0, 0>>

\* what an init callback returns for an index it does not seed
Undefined == <<>>

(***************************************************************************)
(* createParticles: grid side and seeds.                                   *)
(***************************************************************************)
RECURSIVE textureSizeLoop(_, _)
\* while (textureSize * textureSize < particleCount) textureSize *= 2
textureSizeLoop(textureSize, particleCount) ==
  IF textureSize * textureSize < particleCount
  THEN textureSizeLoop(textureSize * 2, particleCount)
  ELSE textureSize

textureSizeOf(particleCount) == textureSizeLoop(2, particleCount)

\* chroma.hsv(h, s, v).gl(), for 0 <= h < 360 and s > 0
hsv(h, s, v) ==
  LET h60 == (h + 30) \div 60
      i == h60 \div ONE
      f == h60 % ONE
      p == FMul(v, ONE - s)
      q == FMul(v, ONE - FMul(s, f))
      t == FMul(v, ONE - FMul(s, ONE - f))
  IN  CASE i = 0 -> <<v, t, p>>
        [] i = 1 -> <<q, v, p>>
        [] i = 2 -> <<p, v, t>>
        [] i = 3 -> <<p, q, v>>
        [] i = 4 -> <<t, p, v>>
        [] OTHER -> <<v, p, q>>

transformInit(i, particleCount) ==
  IF i < particleCount
  THEN LET angle == FMul(FDiv(i * ONE, particleCount * ONE), PI) * 2
       IN  <<FDiv(sin(angle), 2 * ONE), FDiv(cos(angle), 2 * ONE), 0, 0>>
  ELSE Undefined

colorInit(i, particleCount) ==
  IF i < particleCount
  THEN LET rgb == hsv(FDiv(i * ONE, particleCount * ONE) * 360, Lit(9, 10), ONE)
       IN  <<rgb[1], rgb[2], rgb[3], ONE>>
  ELSE Undefined

\* [0.00001, 0, 0, 0], in units of 1 / PROP_ONE
propertyInit(i, particleCount) ==
  IF i < particleCount THEN <<1, 0, 0, 0>> ELSE Undefined

(***************************************************************************)
(* createDoubleBufferTexture / createDataTexture.                          *)
(***************************************************************************)
\* the Float32Array data, as one vec4 per pixel; init[i] is what the init
\* callback returns for i.  The loop stops at the first index init leaves
\* undefined, and the rest of the array stays zero
pixelData(size, init) ==
  [i \in 0 .. size * size - 1 |->
     IF \A j \in 0 .. i : init[j] # Undefined THEN init[i] ELSE Zero4]

\* texImage2D of width x height pixels: pixel k of the array is texel
\* <<k % width, k \div width>>
createDataTexture(array, width, height) ==
  [c \in (0 .. width - 1) \X (0 .. height - 1) |-> array[c[2] * width + c[1]]]

\* faulty variant of createDoubleBufferTexture: only the read texture is seeded
createDoubleBufferTexture_blankWrite(size, init) ==
  LET data == pixelData(size, init)
      blank == [i \in Indices(size) |-> Zero4]
  IN  [read |-> createDataTexture(data, size, size),
       write |-> createDataTexture(blank, size, size)]

\* the two textures of one double buffer, both from the same data
createDoubleBufferTexture(size, init) ==
  LET data == pixelData(size, init)
  IN  [read |-> createDataTexture(data, size, size),
       write |-> createDataTexture(data, size, size)]

getRead(b) == dbuf[b].read

getWrite(b) == dbuf[b].write

\* closure state after swap() of each buffer in bs
swap(bs) ==
  [b \in BufferNames |->
     IF b \in bs THEN [read |-> dbuf[b].write, write |-> dbuf[b].read]
     ELSE dbuf[b]]

(***************************************************************************)
(* The update kernel: the fragment shader of createParticles.  `in` holds  *)
(* what the shader reads: the three sampled textures and the uniform.      *)
(***************************************************************************)
\* const int particleCount = ${PARTICLE_COUNT}
particleCount == PARTICLE_COUNT

\* const int textureSize = ${textureSize}
textureSize == particles.textureSize

\* faulty variant of fetchFromIndex: the two coordinates exchanged
fetchFromIndex_transposed(texture, index) ==
  texture[<<index \div textureSize, index % textureSize>>]

fetchFromIndex(texture, index) ==
  texture[<<index % textureSize, index \div textureSize>>]

getTransform(in, index) == fetchFromIndex(in.transformTexture, index)

getColor(in, index) == fetchFromIndex(in.colorTexture, index)

getProperties(in, index) == fetchFromIndex(in.propertyTexture, index)

linearOf(dir) ==
  sqrt(FDiv(FMul(dir[1], dir[1]) + FMul(dir[2], dir[2]), Lit(8, 1)))

\* faulty variant of repulsionForceOf: const float radius = 2.0
repulsionForceOf_radius2(linear) ==
  LET radius == 2 * ONE
  IN  pow(-linear + ONE, FDiv(ONE, radius) * 200)

\* pow(-linear + 1.0, (1.0 / radius) * 200.0) with const float radius = 1.0
repulsionForceOf(linear) ==
  LET radius == ONE
  IN  pow(-linear + ONE, FDiv(ONE, radius) * 200)

particleDistance(dir) ==
  LET linear == linearOf(dir)
      attractionForce == pow(linear, Lit(2, 10)) - ONE
      stiffness == 100000 * ONE
      repulsionForce == repulsionForceOf(linear)
  IN  FMul(attractionForce, Lit(25, 10)) + FMul(repulsionForce, stiffness)

\* one iteration of the pairwise loop: the velocity increment from particle i
pairTerm(in, pos, color, gravity, i) ==
  LET otherPos == <<getTransform(in, i)[1], getTransform(in, i)[2]>>
      otherColor == getColor(in, i)
      direction == <<pos[1] - otherPos[1], pos[2] - otherPos[2]>>
      \* otherColor.rgb - color.gbr - color.brg
      diff == <<otherColor[1] - color[2] - color[3],
                otherColor[2] - color[3] - color[1],
                otherColor[3] - color[1] - color[2]>>
      colorDistance == FMul(cos(length3(diff)), Lit(1, 10))
      attraction == PMul(particleDistance(direction), gravity)
  IN  <<FMul(FMul(direction[1], attraction), colorDistance),
        FMul(FMul(direction[2], attraction), colorDistance)>>

RECURSIVE pairLoop(_, _, _, _, _, _)
\* for (int i = 0; i < particleCount; i++) vel += ...
pairLoop(in, pos, color, gravity, i, vel) ==
  IF i < particleCount
  THEN LET d == pairTerm(in, pos, color, gravity, i)
       IN  pairLoop(in, pos, color, gravity, i + 1,
                    <<vel[1] + d[1], vel[2] + d[2]>>)
  ELSE vel

\* if (mouse.z != 0.0) { ... vel += direction * attraction; }
mouseTerm(in, pos) ==
  IF in.mouse[3] # 0
  THEN LET direction == <<pos[1] - in.mouse[1], pos[2] - in.mouse[2]>>
           distance == length2(direction)
           unit == IF distance > 0
                   THEN <<FDiv(direction[1], distance),
                          FDiv(direction[2], distance)>>
                   ELSE direction
           attraction ==
             FMul(FMul(particleDistance(unit), in.mouse[3]), Lit(1, 100))
       IN  <<FMul(unit[1], attraction), FMul(unit[2], attraction)>>
  ELSE <<0, 0>>

\* updateTransform up to and including pos += vel: <<pos.x, pos.y, vel.x, vel.y>>
integrate(in, INDEX) ==
  LET pos == <<getTransform(in, INDEX)[1], getTransform(in, INDEX)[2]>>
      vel0 == <<getTransform(in, INDEX)[3], getTransform(in, INDEX)[4]>>
      color == getColor(in, INDEX)
      gravity == getProperties(in, INDEX)[1]
      radius == getProperties(in, INDEX)[2]
      friction == Lit(9, 10)
      vel1 == pairLoop(in, pos, color, gravity, 0, vel0)
      m == mouseTerm(in, pos)
      vel2 == <<FMul(vel1[1] + m[1], friction), FMul(vel1[2] + m[2], friction)>>
  IN  <<pos[1] + vel2[1], pos[2] + vel2[2], vel2[1], vel2[2]>>

\* faulty variant of bounceAxis: clamps the position, keeps the velocity
bounceAxis_keepVelocity(p, v) ==
  IF p > ONE THEN <<ONE, v>>
  ELSE IF p < -ONE THEN <<-ONE, v>>
  ELSE <<p, v>>

\* the reflective branch, one axis: <<pos, vel>>
bounceAxis(p, v) ==
  IF p > ONE THEN <<ONE, FMul(v, -ONE)>>
  ELSE IF p < -ONE THEN <<-ONE, FMul(v, -ONE)>>
  ELSE <<p, v>>

\* the wall bounce of updateTransform, const bool wrapAround = false
wallBounce(t) ==
  LET wrapAround == FALSE
      wx == IF t[1] > ONE THEN -ONE ELSE IF t[1] < -ONE THEN ONE ELSE t[1]
      wy == IF t[2] >= ONE THEN -ONE ELSE IF t[2] < -ONE THEN ONE ELSE t[2]
      bx == bounceAxis(t[1], t[3])
      by == bounceAxis(t[2], t[4])
  IN  IF wrapAround THEN <<wx, wy, t[3], t[4]>>
      ELSE <<bx[1], by[1], bx[2], by[2]>>

updateTransform(in, INDEX) == wallBounce(integrate(in, INDEX))

\* int x = int(gl_FragCoord.y); int y = int(gl_FragCoord.x);
\* indexParticle = x * textureSize + y, for the fragment of texel c
indexParticle(c) ==
  LET x == c[2]
      y == c[1]
  IN  x * textureSize + y

\* if (indexParticle > particleCount) discard;
discarded(c) == indexParticle(c) > particleCount

\* main(): the outputs of the fragment of texel c, by output location
main(in, c) ==
  [loc \in 0 .. 2 |->
     CASE loc = 0 -> updateTransform(in, indexParticle(c))
       [] loc = 1 -> getColor(in, indexParticle(c))
       [] OTHER -> getProperties(in, indexParticle(c))]

\* The draw buffers of the framebuffer object fb.  update() attaches three
\* textures but never calls gl.drawBuffers, so fb keeps the initial draw
\* buffer state of a framebuffer object: fragment colour 0 goes to
\* COLOR_ATTACHMENT0, the other fragment colours to NONE.
DrawBuffers == {0}

\* the textures as they are after gl.drawArrays(gl.TRIANGLES, 0, 6) over the
\* full-screen quad, reading `units` and writing `attach`
drawArrays(units, attach, mouse) ==
  LET in == [transformTexture |-> texData[units[0]],
             colorTexture |-> texData[units[1]],
             propertyTexture |-> texData[units[2]],
             mouse |-> mouse]
      out == [c \in Cells(textureSize) |->
                IF discarded(c) THEN <<>> ELSE main(in, c)]
  IN  [t \in DOMAIN texData |->
         IF \E k \in DrawBuffers : attach[k] = t
         THEN LET k == CHOOSE k \in DrawBuffers : attach[k] = t
              IN  [c \in Cells(textureSize) |->
                     IF discarded(c) THEN texData[t][c] ELSE out[c][k]]
         ELSE texData[t]]

(***************************************************************************)
(* Read-back and the render pass's vertex fetch.                           *)
(***************************************************************************)
\* getParticleState(index, tex): gl.readPixels(y, x, 1, 1, ...)
getParticleState(index, tex) ==
  LET x == index \div textureSize
      y == index % textureSize
  IN  texData[tex][<<y, x>>]

\* the Float32Array particleIndices (particles.count * 12 floats) after the
\* two nested loops; stores past the end of a typed array are dropped
particleIndices ==
  [j \in 0 .. particles.count * 12 - 1 |->
     LET q == j \div 12
         x == q \div particles.textureSize
         y == q % particles.textureSize
     IN  IF j % 2 = 0 THEN x ELSE y]

\* the texel vertex v fetches: ivec2(indexPos.y, indexPos.x)
vertexCell(v) ==
  LET indexPos == <<particleIndices[2 * v], particleIndices[2 * v + 1]>>
  IN  <<indexPos[2], indexPos[1]>>

\* what the vertex shader passes on for the first vertex of every quad
renderFetch ==
  [q \in 0 .. particles.count - 1 |->
     [outTransform |-> texData[particles.textureTransform][vertexCell(6 * q)],
      outColor |-> texData[particles.textureColor][vertexCell(6 * q)],
      outProperties |->
        texData[particles.textureProperties][vertexCell(6 * q)]]]

(***************************************************************************)
(* The pointer handlers.                                                   *)
(***************************************************************************)
\* canvas.getBoundingClientRect(), in CSS pixels
Rect == [left |-> 100, top |-> 50, width |-> 200, height |-> 100]

\* pointer positions the environment reports (clientX, clientY); the
\* listeners are on window, so positions outside the canvas occur too
ClientXs == {0, 150, 300}

ClientYs == {75, 150}

ButtonBits == {1, 4}

\* mouseMove: the new <<mx, my>>
mouseMove(clientX, clientY) ==
  LET x0 == clientX - Rect.left
      y0 == clientY - Rect.top
      \* a quotient of two pixel counts, as a fixed-point value
      x1 == FDiv(x0, Rect.width)
      y1 == FDiv(y0, Rect.height)
      x2 == x1 * 2 - ONE
      y2 == y1 * 2 - ONE
  IN  <<x2, -y2>>

\* mouseDown: pressed = e.buttons === 4 ? -1 : 1
mouseDown(eButtons) == IF eButtons = 4 THEN -1 ELSE 1

\* mouseUp: pressed = 0
mouseUp == 0

RECURSIVE SumOf(_)
SumOf(S) == IF S = {} THEN 0 ELSE LET b == CHOOSE b \in S : TRUE
                                  IN  b + SumOf(S \ {b})

(***************************************************************************)
(* Initial states: createSimulation has run up to its first call of tick() *)
(* (line 611), which is about to execute.                                  *)
(***************************************************************************)
\* the state createParticles and createSimulation leave, for particle count
\* n and the given transform double buffer
Created(n, transformTexture) ==
  LET size == textureSizeOf(n)
      colorTexture ==
        createDoubleBufferTexture(size, [i \in Indices(size) |-> colorInit(i, n)])
      propertyTexture ==
        createDoubleBufferTexture(size,
                                  [i \in Indices(size) |-> propertyInit(i, n)])
  IN  /\ PARTICLE_COUNT = n
      /\ texData = <<transformTexture.read, transformTexture.write,
                     colorTexture.read, colorTexture.write,
                     propertyTexture.read, propertyTexture.write>>
      /\ allocated = 1 .. 6
      /\ dbuf = [b \in BufferNames |->
                   CASE b = "transform" -> [read |-> 1, write |-> 2]
                     [] b = "color" -> [read |-> 3, write |-> 4]
                     [] OTHER -> [read |-> 5, write |-> 6]]
      /\ particles = [count |-> n, textureSize |-> size,
                      textureTransform |-> 1, textureColor |-> 3,
                      textureProperties |-> 5]
      /\ texUnits = [u \in 0 .. 2 |-> IF u = 0 THEN 6 ELSE 0]
      /\ fbAttach = [k \in 0 .. 2 |-> 0]
      /\ uniformMouse = <<0, 0, 0>>
      /\ drawn = {}
      /\ frame = <<>>
      /\ mx = 0 /\ my = 0 /\ pressed = 0
      /\ listeners = {"mousemove", "mousedown", "mouseup"}
      /\ destroyed = FALSE
      /\ rafPending = FALSE
      /\ pc = "tick"
      /\ updateArgs = <<0, 0, 0>>
      /\ buttons = {}
      /\ ticks = 0
      /\ events = 0

Init ==
  \E n \in 1 .. MaxParticles :
    Created(n, createDoubleBufferTexture(
                 textureSizeOf(n),
                 [i \in Indices(textureSizeOf(n)) |-> transformInit(i, n)]))

(***************************************************************************)
(* tick() and particles.update(), statement group by statement group.      *)
(* JavaScript runs a callback to completion: no handler runs while pc is   *)
(* not "idle".                                                             *)
(***************************************************************************)
\* if (destroyed) return; particles.update(mx, my, pressed)
tickEnter ==
  /\ pc = "tick"
  /\ IF destroyed
     THEN pc' = "idle" /\ UNCHANGED <<updateArgs, ticks>>
     ELSE pc' = "bind" /\ updateArgs' = <<mx, my, pressed>> /\ ticks' = ticks + 1
  /\ UNCHANGED <<PARTICLE_COUNT, particles, dbuf, texData, allocated,
                 texUnits, fbAttach, uniformMouse, drawn, frame, mx, my,
                 pressed, listeners, destroyed, rafPending, buttons, events>>

\* faulty variant of updateBind: attaches the read side as the outputs
updateBind_attachRead ==
  /\ pc = "bind"
  /\ texUnits' = [i \in 0 .. 2 |-> getRead(Buffers[i + 1])]
  /\ uniformMouse' = <<updateArgs[1], updateArgs[2], updateArgs[3] * ONE>>
  /\ fbAttach' = [i \in 0 .. 2 |-> getRead(Buffers[i + 1])]
  /\ pc' = "draw"
  /\ UNCHANGED <<PARTICLE_COUNT, particles, dbuf, texData, allocated, drawn,
                 frame, mx, my, pressed, listeners, destroyed, rafPending,
                 updateArgs, buttons, ticks, events>>

\* update(): bind the inputs, the uniform and the framebuffer attachments
updateBind ==
  /\ pc = "bind"
  /\ texUnits' = [i \in 0 .. 2 |-> getRead(Buffers[i + 1])]
  /\ uniformMouse' = <<updateArgs[1], updateArgs[2], updateArgs[3] * ONE>>
  /\ fbAttach' = [i \in 0 .. 2 |-> getWrite(Buffers[i + 1])]
  /\ pc' = "draw"
  /\ UNCHANGED <<PARTICLE_COUNT, particles, dbuf, texData, allocated, drawn,
                 frame, mx, my, pressed, listeners, destroyed, rafPending,
                 updateArgs, buttons, ticks, events>>

\* update(): gl.drawArrays(gl.TRIANGLES, 0, 6)
updateDraw ==
  /\ pc = "draw"
  /\ texData' = drawArrays(texUnits, fbAttach, uniformMouse)
  /\ drawn' = {c \in Cells(textureSize) : ~discarded(c)}
  /\ pc' = "publish"
  /\ UNCHANGED <<PARTICLE_COUNT, particles, dbuf, allocated, texUnits,
                 fbAttach, uniformMouse, frame, mx, my, pressed, listeners,
                 destroyed, rafPending, updateArgs, buttons, ticks, events>>

\* faulty variant of published: publishes the read-side handles
published_readSide ==
  [particles EXCEPT !.textureTransform = getRead("transform"),
                    !.textureColor = getRead("color"),
                    !.textureProperties = getRead("property")]

\* the handles update() stores in this.textureTransform / Color / Properties
published ==
  [particles EXCEPT !.textureTransform = getWrite("transform"),
                    !.textureColor = getWrite("color"),
                    !.textureProperties = getWrite("property")]

\* update(): this.textureTransform = transformTexture.getWrite(); ...
updatePublish ==
  /\ pc = "publish"
  /\ particles' = published
  /\ pc' = "swap"
  /\ UNCHANGED <<PARTICLE_COUNT, dbuf, texData, allocated, texUnits, fbAttach,
                 uniformMouse, drawn, frame, mx, my, pressed, listeners,
                 destroyed, rafPending, updateArgs, buttons, ticks, events>>

\* update(): transformTexture.swap(); colorTexture.swap(); propertyTexture.swap()
updateSwap ==
  /\ pc = "swap"
  /\ dbuf' = swap(BufferNames)
  /\ pc' = "render"
  /\ UNCHANGED <<PARTICLE_COUNT, particles, texData, allocated, texUnits,
                 fbAttach, uniformMouse, drawn, frame, mx, my, pressed,
                 listeners, destroyed, rafPending, updateArgs, buttons, ticks,
                 events>>

\* tick(): the render pass over the published textures, then
\* requestAnimationFrame(tick)
tickRender ==
  /\ pc = "render"
  /\ texUnits' = [u \in 0 .. 2 |->
                    CASE u = 0 -> particles.textureTransform
                      [] u = 1 -> particles.textureColor
                      [] OTHER -> particles.textureProperties]
  /\ frame' = renderFetch
  /\ rafPending' = TRUE
  /\ pc' = "idle"
  /\ UNCHANGED <<PARTICLE_COUNT, particles, dbuf, texData, allocated,
                 fbAttach, uniformMouse, drawn, mx, my, pressed, listeners,
                 destroyed, updateArgs, buttons, ticks, events>>

\* the browser runs the callback requestAnimationFrame registered
animationFrame ==
  /\ pc = "idle"
  /\ rafPending
  /\ ticks < MaxTicks \/ destroyed
  /\ rafPending' = FALSE
  /\ pc' = "tick"
  /\ UNCHANGED <<PARTICLE_COUNT, particles, dbuf, texData, allocated,
                 texUnits, fbAttach, uniformMouse, drawn, frame, mx, my,
                 pressed, listeners, destroyed, updateArgs, buttons, ticks,
                 events>>

(***************************************************************************)
(* Pointer events and destruction.  An event reaches its handler only      *)
(* while the handler is registered.                                        *)
(***************************************************************************)
MouseMoveEvent ==
  /\ pc = "idle"
  /\ events < MaxEvents
  /\ \E clientX \in ClientXs, clientY \in ClientYs :
       IF "mousemove" \in listeners
       THEN /\ mx' = mouseMove(clientX, clientY)[1]
            /\ my' = mouseMove(clientX, clientY)[2]
       ELSE UNCHANGED <<mx, my>>
  /\ events' = events + 1
  /\ UNCHANGED <<PARTICLE_COUNT, particles, dbuf, texData, allocated,
                 texUnits, fbAttach, uniformMouse, drawn, frame, pressed,
                 listeners, destroyed, rafPending, pc, updateArgs, buttons,
                 ticks>>

MouseDownEvent ==
  /\ pc = "idle"
  /\ events < MaxEvents
  /\ \E b \in ButtonBits \ buttons :
       /\ buttons' = buttons \cup {b}
       /\ IF "mousedown" \in listeners
          THEN pressed' = mouseDown(SumOf(buttons \cup {b}))
          ELSE UNCHANGED pressed
  /\ events' = events + 1
  /\ UNCHANGED <<PARTICLE_COUNT, particles, dbuf, texData, allocated,
                 texUnits, fbAttach, uniformMouse, drawn, frame, mx, my,
                 listeners, destroyed, rafPending, pc, updateArgs, ticks>>

MouseUpEvent ==
  /\ pc = "idle"
  /\ events < MaxEvents
  /\ \E b \in buttons :
       /\ buttons' = buttons \ {b}
       /\ IF "mouseup" \in listeners
          THEN pressed' = mouseUp
          ELSE UNCHANGED pressed
  /\ events' = events + 1
  /\ UNCHANGED <<PARTICLE_COUNT, particles, dbuf, texData, allocated,
                 texUnits, fbAttach, uniformMouse, drawn, frame, mx, my,
                 listeners, destroyed, rafPending, pc, updateArgs, ticks>>

\* the function createSimulation returns
destroy ==
  /\ pc = "idle"
  /\ destroyed' = TRUE
  /\ listeners' = listeners \ {"mousemove", "mousedown", "mouseup"}
  /\ UNCHANGED <<PARTICLE_COUNT, particles, dbuf, texData, allocated,
                 texUnits, fbAttach, uniformMouse, drawn, frame, mx, my,
                 pressed, rafPending, pc, updateArgs, buttons, ticks, events>>

Next ==
  \/ tickEnter
  \/ updateBind
  \/ updateDraw
  \/ updatePublish
  \/ updateSwap
  \/ tickRender
  \/ animationFrame
  \/ MouseMoveEvent
  \/ MouseDownEvent
  \/ MouseUpEvent
  \/ destroy

Spec == Init /\ [][Next]_vars

(***************************************************************************)
(* The kernel over a bounded set of particle states.  The seeded circle    *)
(* of radius 0.5 is some hundred ticks away from the walls; this           *)
(* specification starts the same program from transform buffers whose      *)
(* particles are at, next to and inside the walls.                         *)
(***************************************************************************)
\* <<pos.x, pos.y, vel.x, vel.y>>: integrating past +1 in x and past -1 in
\* y; to exactly +1 in x; past -1 in x and past +1 in y; staying inside
KernelTransforms ==
  {<<9990, -9990, 100, -100>>, <<9910, 40, 100, 50>>,
   <<-9990, 9990, -100, 100>>, <<40, 40, 50, 50>>}

\* a second particle, 0.03 away from the particle at <<40, 40>>
KernelNeighbour == <<340, 40, 0, 0>>

kernelInit(i, n, t) ==
  IF i >= n THEN Undefined ELSE IF i = 0 THEN t ELSE KernelNeighbour

InitKernel ==
  \E n \in 1 .. 2, t \in KernelTransforms :
    Created(n, createDoubleBufferTexture(
                 textureSizeOf(n),
                 [i \in Indices(textureSizeOf(n)) |-> kernelInit(i, n, t)]))

SpecKernel == InitKernel /\ [][Next]_vars

(***************************************************************************)
(* The sizing loop of createParticles (lines 165-168), one iteration per   *)
(* step, for particle counts up to MaxGridCount.                           *)
(***************************************************************************)
InitGrid ==
  /\ PARTICLE_COUNT \in 1 .. MaxGridCount
  /\ particles = [count |-> PARTICLE_COUNT, textureSize |-> 2,
                  textureTransform |-> 0, textureColor |-> 0,
                  textureProperties |-> 0]
  /\ pc = "sizing"
  /\ texData = <<>>
  /\ allocated = {}
  /\ dbuf = <<>>
  /\ texUnits = [u \in 0 .. 2 |-> 0]
  /\ fbAttach = [k \in 0 .. 2 |-> 0]
  /\ uniformMouse = <<0, 0, 0>>
  /\ drawn = {}
  /\ frame = <<>>
  /\ mx = 0 /\ my = 0 /\ pressed = 0
  /\ listeners = {"mousemove", "mousedown", "mouseup"}
  /\ destroyed = FALSE
  /\ rafPending = FALSE
  /\ updateArgs = <<0, 0, 0>>
  /\ buttons = {}
  /\ ticks = 0
  /\ events = 0

\* faulty variant of growTextureSize: the loop condition is <= instead of <
growTextureSize_orEqual ==
  /\ pc = "sizing"
  /\ particles.textureSize * particles.textureSize <= particles.count
  /\ particles' = [particles EXCEPT !.textureSize = @ * 2]
  /\ UNCHANGED <<PARTICLE_COUNT, dbuf, texData, allocated, texUnits, fbAttach,
                 uniformMouse, drawn, frame, mx, my, pressed, listeners,
                 destroyed, rafPending, pc, updateArgs, buttons, ticks,
                 events>>

\* while (textureSize * textureSize < particleCount) textureSize *= 2
growTextureSize ==
  /\ pc = "sizing"
  /\ particles.textureSize * particles.textureSize < particles.count
  /\ particles' = [particles EXCEPT !.textureSize = @ * 2]
  /\ UNCHANGED <<PARTICLE_COUNT, dbuf, texData, allocated, texUnits, fbAttach,
                 uniformMouse, drawn, frame, mx, my, pressed, listeners,
                 destroyed, rafPending, pc, updateArgs, buttons, ticks,
                 events>>

\* the loop condition fails: textureSize is final
sizeDone ==
  /\ pc = "sizing"
  /\ ~(particles.textureSize * particles.textureSize < particles.count)
  /\ pc' = "sized"
  /\ UNCHANGED <<PARTICLE_COUNT, particles, dbuf, texData, allocated,
                 texUnits, fbAttach, uniformMouse, drawn, frame, mx, my,
                 pressed, listeners, destroyed, rafPending, updateArgs,
                 buttons, ticks, events>>

NextGrid == growTextureSize \/ sizeDone

SpecGrid == InitGrid /\ [][NextGrid]_vars

(***************************************************************************)
(* Vocabulary of the properties.                                           *)
(***************************************************************************)
\* the indices of the active particles
Active == 0 .. particles.count - 1

\* the grid cell <<col, row>> of index i: row = i / S, col = i % S
cellOf(i) == <<i % particles.textureSize, i \div particles.textureSize>>

\* no update() is running: the updates begun have all completed
UpdateCompleted == pc \in {"tick", "idle", "render"}

\* what the kernel of the running update() reads (valid from "draw" on)
kernelIn ==
  [transformTexture |-> texData[texUnits[0]],
   colorTexture |-> texData[texUnits[1]],
   propertyTexture |-> texData[texUnits[2]],
   mouse |-> uniformMouse]

\* after a completed update(): the state that update() started from, which
\* is what the write side now designates, and the uniform it ran with
previousIn ==
  [transformTexture |-> texData[getWrite("transform")],
   colorTexture |-> texData[getWrite("color")],
   propertyTexture |-> texData[getWrite("property")],
   mouse |-> uniformMouse]

\* the texture handle createParticles gave each side of buffer b
InitialRead(b) ==
  CASE b = "transform" -> 1 [] b = "color" -> 3 [] OTHER -> 5

InitialWrite(b) ==
  CASE b = "transform" -> 2 [] b = "color" -> 4 [] OTHER -> 6

publishedHandle(b) ==
  CASE b = "transform" -> particles.textureTransform
    [] b = "color" -> particles.textureColor
    [] OTHER -> particles.textureProperties

(***************************************************************************)
(* C1.  Whenever no update() is running (after zero or more completed      *)
(* updates): each published handle is the texture getRead() returns; each  *)
(* buffer has been swapped once per completed update (the read side is the *)
(* initial read texture after an even number of updates, the initial write *)
(* texture after an odd number); after at least one update the published   *)
(* texture is the one that was attached as the kernel's output, i.e. what  *)
(* getWrite() returned before the swap; and every active record of the     *)
(* three published textures is the kernel's output for one and the same    *)
(* previous state (the one the write side still holds) and one uniform     *)
(* when update() returns: one tick, never a mixture of two.                *)
(***************************************************************************)
C1_PublishedIsOneTick ==
  /\ UpdateCompleted =>
       /\ \A b \in BufferNames :
            /\ publishedHandle(b) = getRead(b)
            /\ getRead(b) =
                 IF ticks % 2 = 0 THEN InitialRead(b) ELSE InitialWrite(b)
            /\ getWrite(b) =
                 IF ticks % 2 = 0 THEN InitialWrite(b) ELSE InitialRead(b)
       /\ ticks >= 1 => \A k \in 0 .. 2 : fbAttach[k] = getRead(Buffers[k + 1])
  \* update() has just returned
  /\ pc = "render" =>
       \A i \in Active :
         /\ fetchFromIndex(texData[particles.textureTransform], i)
              = updateTransform(previousIn, i)
         /\ fetchFromIndex(texData[particles.textureColor], i)
              = getColor(previousIn, i)
         /\ fetchFromIndex(texData[particles.textureProperties], i)
              = getProperties(previousIn, i)

\* two updates have completed and the published transform of some active
\* particle differs from the previous tick's
C1_Witness ==
  /\ pc = "idle"
  /\ ticks = 2
  /\ \E i \in Active :
       fetchFromIndex(texData[particles.textureTransform], i)
         # fetchFromIndex(texData[getWrite("transform")], i)

(***************************************************************************)
(* C2.  In every state getRead() and getWrite() of each double buffer are  *)
(* different textures; when the kernel is dispatched its inputs are the    *)
(* read-side textures and its outputs the write-side textures; and no step *)
(* of update() before swap() changes a value observable through getRead(). *)
(***************************************************************************)
C2_State ==
  /\ \A b \in BufferNames : getRead(b) # getWrite(b)
  /\ pc = "draw" =>
       \A k \in 0 .. 2 : /\ texUnits[k] = getRead(Buffers[k + 1])
                         /\ fbAttach[k] = getWrite(Buffers[k + 1])

readView == [b \in BufferNames |-> texData[getRead(b)]]

C2_Step == pc \in {"bind", "draw", "publish"} => readView' = readView

C2_Isolation == [](C2_State) /\ [][C2_Step]_vars

\* the kernel has written a transform that differs from the one on the read
\* side, and swap() has not run yet
C2_Witness ==
  /\ pc = "publish"
  /\ \E i \in Active :
       fetchFromIndex(texData[getWrite("transform")], i)
         # fetchFromIndex(texData[getRead("transform")], i)

(***************************************************************************)
(* C3.  The claim as stated: after a dispatch, every texel the kernel      *)
(* wrote has index i = row * S + col < N (instances with i >= N, i = N     *)
(* included, are skipped), and the pairwise loop runs over 0 .. N-1.       *)
(***************************************************************************)
C3_Original ==
  pc = "publish" =>
    /\ \A c \in drawn : c[2] * particles.textureSize + c[1] < particles.count
    /\ particleCount = particles.count

(***************************************************************************)
(* C4.  In every state, for every active particle i the Color record and   *)
(* the Properties record read through the read-side buffers equal the      *)
(* values seeded for i at creation.                                        *)
(***************************************************************************)
C4_ColorPropertiesKeepSeed ==
  \A i \in Active :
    /\ fetchFromIndex(texData[getRead("color")], i)
         = colorInit(i, particles.count)
    /\ fetchFromIndex(texData[getRead("property")], i)
         = propertyInit(i, particles.count)

\* after an update the Transform of some active particle differs from its seed
C4_Witness ==
  /\ pc = "idle"
  /\ ticks >= 1
  /\ \E i \in Active :
       fetchFromIndex(texData[getRead("transform")], i)
         # transformInit(i, particles.count)

(***************************************************************************)
(* C5.  The claim as stated: for every N >= 1 the grid side S the sizing   *)
(* loop ends with is the smallest power of two whose square is at least N. *)
(***************************************************************************)
IsPowerOfTwo(x) == \E k \in 0 .. 12 : 2 ^ k = x

C5_Original ==
  pc = "sized" =>
    LET S == particles.textureSize
        N == particles.count
    IN  /\ IsPowerOfTwo(S)
        /\ S * S >= N
        /\ \A T \in 1 .. S - 1 : IsPowerOfTwo(T) => T * T < N

(***************************************************************************)
(* C5, amended.  For every N >= 1 the grid side S is the smallest power of *)
(* two that is at least 2 and whose square is at least N (the loop starts  *)
(* at 2, so S = 2 for N = 1); it is the side createParticles uses.         *)
(***************************************************************************)
C5_GridSide ==
  pc = "sized" =>
    LET S == particles.textureSize
        N == particles.count
    IN  /\ IsPowerOfTwo(S)
        /\ S >= 2
        /\ S * S >= N
        /\ \A T \in 2 .. S - 1 : IsPowerOfTwo(T) => T * T < N
        /\ S = textureSizeOf(N)

\* the loop has doubled twice: 4 * 4 < 17 <= 8 * 8
C5_Witness ==
  /\ pc = "sized"
  /\ particles.count = 17
  /\ particles.textureSize = 8

(***************************************************************************)
(* C6.  The claim as stated: the triple (x, y, strength) a tick passes to  *)
(* update() has x and y in [-1, 1] and strength in {-1, 0, 1}, and         *)
(* strength = 0 when no pointer button is held.                            *)
(***************************************************************************)
C6_Original ==
  pc = "bind" =>
    /\ updateArgs[1] \in -ONE .. ONE
    /\ updateArgs[2] \in -ONE .. ONE
    /\ updateArgs[3] \in {-1, 0, 1}
    /\ buttons = {} => updateArgs[3] = 0

(***************************************************************************)
(* C7.  The claim as stated: once destroy has been called no update() step *)
(* runs, no pointer handler is registered, and none of the textures        *)
(* createParticles created remains allocated.                              *)
(***************************************************************************)
C7_Original ==
  destroyed =>
    /\ pc \notin {"bind", "draw", "publish", "swap", "render"}
    /\ listeners = {}
    /\ allocated = {}

(***************************************************************************)
(* C8.  Reflective walls.  For every active particle and each axis, with p *)
(* and v the integrated position and velocity: the kernel emits (1, -v) if *)
(* p > 1, (-1, -v) if p < -1, and (p, v) otherwise; and whenever no        *)
(* update() is running every active particle's position is in             *)
(* [-1, 1] x [-1, 1].                                                      *)
(***************************************************************************)
reflectedPos(p) == IF p > ONE THEN ONE ELSE IF p < -ONE THEN -ONE ELSE p

reflectedVel(p, v) == IF p > ONE \/ p < -ONE THEN -v ELSE v

C8_Reflective ==
  /\ pc = "publish" =>
       \A i \in Active :
         LET t == integrate(kernelIn, i)
             e == fetchFromIndex(texData[getWrite("transform")], i)
         IN  /\ e[1] = reflectedPos(t[1])
             /\ e[2] = reflectedPos(t[2])
             /\ e[3] = reflectedVel(t[1], t[3])
             /\ e[4] = reflectedVel(t[2], t[4])
  /\ UpdateCompleted =>
       \A i \in Active :
         LET e == fetchFromIndex(texData[getRead("transform")], i)
         IN  e[1] \in -ONE .. ONE /\ e[2] \in -ONE .. ONE

\* a particle integrated past +1 in x and past -1 in y has been written
C8_Witness ==
  /\ pc = "publish"
  /\ \E i \in Active :
       LET t == integrate(kernelIn, i)
       IN  t[1] > ONE /\ t[2] < -ONE /\ t[3] # 0 /\ t[4] # 0

(***************************************************************************)
(* C9.  index = row * S + col is one bijection between [0, S * S) and the  *)
(* grid cells, and for every active particle i and all three buffers the   *)
(* cell seeded with seed(i), the cell fetchFromIndex(i) reads, the cell    *)
(* whose kernel instance computes indexParticle = i and writes record i,   *)
(* the cell getParticleState(i) reads back and the cell the six vertices   *)
(* of quad i fetch in the render pass are that same cell.                  *)
(***************************************************************************)
seedOf(b, i) ==
  CASE b = "transform" -> transformInit(i, particles.count)
    [] b = "color" -> colorInit(i, particles.count)
    [] OTHER -> propertyInit(i, particles.count)

C9_OneMapping ==
  /\ \A i \in Indices(particles.textureSize) :
       /\ cellOf(i) \in Cells(particles.textureSize)
       /\ indexParticle(cellOf(i)) = i
  /\ \A c \in Cells(particles.textureSize) : cellOf(indexParticle(c)) = c
  /\ \A i \in Active :
       /\ \A v \in 0 .. 5 : vertexCell(6 * i + v) = cellOf(i)
       /\ \A t \in allocated :
            /\ fetchFromIndex(texData[t], i) = texData[t][cellOf(i)]
            /\ getParticleState(i, t) = texData[t][cellOf(i)]
       \* the seeds are where fetchFromIndex looks for them
       /\ ticks = 0 =>
            \A b \in BufferNames :
              /\ fetchFromIndex(texData[getRead(b)], i) = seedOf(b, i)
              /\ fetchFromIndex(texData[getWrite(b)], i) = seedOf(b, i)
       \* the record the kernel instance of index i computed is at cell i
       /\ pc = "publish" =>
            /\ cellOf(i) \in drawn
            /\ texData[getWrite("transform")][cellOf(i)]
                 = updateTransform(kernelIn, i)
       \* the render pass draws quad i from cell i
       /\ pc = "idle" /\ frame # <<>> =>
            frame[i].outTransform
              = texData[particles.textureTransform][cellOf(i)]

\* a rendered frame whose particle 2 lies in row 1 of the grid
C9_Witness ==
  /\ pc = "idle"
  /\ ticks = 2
  /\ particles.count = 3
  /\ cellOf(2) = <<0, 1>>
  /\ frame[2].outTransform = transformInit(2, 3)
  /\ frame[1].outTransform # frame[2].outTransform

(***************************************************************************)
(* C10.  The claim as stated: for every direction the kernel evaluates,    *)
(* the repulsion term equals (2.0 - linear)^200.  Powers above 4.0 are     *)
(* reported as 4.0 here.                                                   *)
(***************************************************************************)
RECURSIVE PowCapped(_, _)
PowCapped(x, n) ==
  LET cap == 4 * ONE
      r == IF n = 0 THEN ONE
           ELSE IF n % 2 = 0
                THEN LET h == PowCapped(x, n \div 2) IN FMul(h, h)
                ELSE FMul(PowCapped(x, n - 1), x)
  IN  IF r > cap THEN cap ELSE r

\* the directions pos_i - pos_j of the pairwise loop of the running update
pairDirections ==
  {<<getTransform(kernelIn, i)[1] - getTransform(kernelIn, j)[1],
     getTransform(kernelIn, i)[2] - getTransform(kernelIn, j)[2]>> :
     i \in Active, j \in Active}

C10_Original ==
  pc = "publish" =>
    \A dir \in pairDirections :
      repulsionForceOf(linearOf(dir)) = PowCapped(2 * ONE - linearOf(dir), 200)

(***************************************************************************)
(* C10, amended.  For every direction the pairwise loop evaluates, the     *)
(* repulsion term equals (1.0 - linear)^200, i.e. (1.0 - linear)^(200 /    *)
(* radius) with the constant radius = 1.0; and the Transform the kernel    *)
(* writes does not depend on a particle's stored radius: with the radius   *)
(* of any one particle replaced, every active particle's output is the     *)
(* same.                                                                   *)
(***************************************************************************)
\* stored radius values to compare with, in units of 1 / PROP_ONE
RadiusProbes == {PROP_ONE \div 2, 2 * PROP_ONE}

withRadius(in, i, r) ==
  [in EXCEPT !.propertyTexture =
     [c \in DOMAIN in.propertyTexture |->
        IF c = cellOf(i)
        THEN <<in.propertyTexture[c][1], r, in.propertyTexture[c][3],
               in.propertyTexture[c][4]>>
        ELSE in.propertyTexture[c]]]

C10_FixedRadius ==
  pc = "publish" =>
    /\ \A dir \in pairDirections :
         repulsionForceOf(linearOf(dir)) = PowN(ONE - linearOf(dir), 200)
    /\ \A i \in Active, k \in Active, r \in RadiusProbes :
         updateTransform(withRadius(kernelIn, i, r), k)
           = texData[getWrite("transform")][cellOf(k)]

\* two particles 0.03 apart: linear = 0.01 and a repulsion term strictly
\* between 0 and 1
C10_Witness ==
  /\ pc = "publish"
  /\ \E dir \in pairDirections :
       /\ linearOf(dir) = 100
       /\ repulsionForceOf(linearOf(dir)) \in 1 .. ONE - 1

====
